---------------------------- MODULE Spec2Model ----------------------------
(***************************************************************************)
(* Model of authentik-enum.py: the release-tag enumerator                  *)
(* (github_fetch_release_tags), the existence prober (probe_url_status),   *)
(* the progress reporter (ProgressLine) and the controller (main).         *)
(*                                                                         *)
(* Text is modelled as a sequence of one-character strings, so that        *)
(* stripping, prefix removal and comparison are computed, not assumed.     *)
(***************************************************************************)
EXTENDS Integers, Sequences, FiniteSets, TLC

VARIABLES
    pc,            \* position of main: "start", "fetch", "probe", "report", "done"
    args,          \* parsed options: all, sleep (TRUE = positive), verbose
    ui_enabled,    \* stderr_is_tty() and not args.no_ui
    base_url,      \* main's base_url after strip / rstrip("/")
    token,         \* GITHUB_TOKEN or None (modelled as TRUE = a token is set)
    url,           \* enumerator local: URL of the next index request, NoUrl = ""
    page,          \* enumerator local: page counter
    versions,      \* enumerator local: ordered list of normalized tags; after a
                   \* failed request, the list that was abandoned
    seen,          \* enumerator local: set of normalized tags already listed
    link,          \* enumerator local: Link header of the last page received
    gh_ui,         \* ProgressLine of phase 1
    probe_ui,      \* ProgressLine of phase 2
    candidates,    \* main's `versions`: the list github_fetch_release_tags returned
    total,         \* main: len(versions)
    i,             \* main: index of the probing loop (1-based), 0 before the loop
    checked,       \* main: checked counter
    found,         \* main: list of hits (ver, url, status)
    exit_code,     \* return value of main, NoExit while running
    stdout,        \* lines written to sys.stdout
    stderr,        \* messages written to sys.stderr
    rawLog,        \* history: release records received by the running enumeration
    requests,      \* history: every network request and pause, in order
    probeLog,      \* history: (ver, url, status) of each probe, in order
    normLog,       \* history of normalize_tag applied on its own: the argument,
                   \* then the value of each successive call
    uiLog          \* history of the calls made on a ProgressLine used on its own

vars == <<pc, args, ui_enabled, base_url, token, url, page, versions, seen, link,
          gh_ui, probe_ui, candidates, total, i, checked, found, exit_code,
          stdout, stderr, rawLog, requests, probeLog, normLog, uiLog>>

---------------------------------------------------------------------------
(* Bounds of the model *)

\* total number of release records the upstream index serves in one run
MaxLog == 3
\* number of index pages the upstream serves before it stops sending "next"
MaxPages == 2
MaxTagLen == 3       \* longest tag body handed to normalize_tag on its own
MaxCalls == 4        \* most calls made on a ProgressLine used on its own

---------------------------------------------------------------------------
(* Text helpers *)

Str_version == <<"v", "e", "r", "s", "i", "o", "n", "/">>

\* the whitespace characters str.strip() removes, as far as the inputs use them
Whitespace == {" ", "\t", "\n"}

IsSpace(c) == c \in Whitespace

RECURSIVE LStrip(_)
LStrip(s) == IF s # <<>> /\ IsSpace(Head(s)) THEN LStrip(Tail(s)) ELSE s

RECURSIVE RStrip(_)
RStrip(s) ==
    IF s # <<>> /\ IsSpace(s[Len(s)]) THEN RStrip(SubSeq(s, 1, Len(s) - 1)) ELSE s

\* str.strip()
Strip(s) == RStrip(LStrip(s))

\* str.rstrip("/")
RECURSIVE RStripSlash(_)
RStripSlash(s) ==
    IF s # <<>> /\ s[Len(s)] = "/" THEN RStripSlash(SubSeq(s, 1, Len(s) - 1)) ELSE s

\* re.sub(r"^prefix", "", s) for a literal prefix
StripPrefix(p, s) ==
    IF Len(s) >= Len(p) /\ SubSeq(s, 1, Len(p)) = p
    THEN SubSeq(s, Len(p) + 1, Len(s))
    ELSE s

\* Python's None where a text is expected (rel.get of a missing key, JSON null)
None == <<"<None>">>

\* variant of normalize_tag: the leading "v" is kept
normalize_tag_keeps_v(tag) ==
    LET t0 == IF tag = None THEN <<>> ELSE tag
    IN  StripPrefix(Str_version, Strip(t0))

\* normalize_tag: (tag or "").strip(), then ^version/ removed, then ^v removed
normalize_tag(tag) ==
    LET t0 == IF tag = None THEN <<>> ELSE tag
        t1 == Strip(t0)
        t2 == StripPrefix(Str_version, t1)
    IN  StripPrefix(<<"v">>, t2)

---------------------------------------------------------------------------
(* URLs *)

GITHUB_API == "https://api.github.com"

\* default of --repo
Repo == "goauthentik/authentik"

\* the empty URL ""
NoUrl == [host |-> "", path |-> "", page |-> 0]

\* f"{GITHUB_API}/repos/{repo}/releases?per_page=100&page=N"
IndexUrl(n) == [host |-> GITHUB_API, path |-> "/repos/" \o Repo \o "/releases", page |-> n]

\* a URL that is not the release index: parse_link_header takes whatever
\* stands between < and > in the upstream's Link header (lines 94-97)
ElsewhereUrl == [host |-> "https://elsewhere.example", path |-> "/next", page |-> 0]

\* f"{base_url}/static/dist/admin/AdminInterface-{ver}.js"
ProbeUrl(base, ver) ==
    [base |-> base, path |-> "/static/dist/admin/AdminInterface-", ver |-> ver, ext |-> ".js"]

---------------------------------------------------------------------------
(* Link header *)

\* One comma-separated part <url>; rel="name" of a Link header
LinkPart(u, r) == [url |-> u, rel |-> r]

\* re.match(r'^<([^>]+)>;\s*rel="([^"]+)"$', part): both groups are non-empty
PartMatches(part) == part.url # NoUrl /\ part.rel # ""

\* variant of parse_link_header: only the first part of the header is read
parse_link_header_first_only(hdr) ==
    IF hdr = <<>> \/ ~PartMatches(hdr[1]) THEN <<>>
    ELSE <<[rel |-> hdr[1].rel, url |-> hdr[1].url]>>

\* parse_link_header: the dictionary rel -> url of the well-formed parts, a
\* later part overriding an earlier one with the same rel.
RECURSIVE parse_link_header(_)
parse_link_header(hdr) ==
    IF hdr = <<>> THEN <<>>
    ELSE LET n    == Len(hdr)
             part == hdr[n]
             rest == parse_link_header(SubSeq(hdr, 1, n - 1))
         IN  IF PartMatches(part)
             THEN SelectSeq(rest, LAMBDA e : e.rel # part.rel)
                      \o <<[rel |-> part.rel, url |-> part.url]>>
             ELSE rest

\* dict.get(key, "")
DictGet(d, key) ==
    IF \E k \in 1..Len(d) : d[k].rel = key
    THEN (CHOOSE e \in {d[k] : k \in 1..Len(d)} : e.rel = key).url
    ELSE NoUrl

\* lines 191-192: parse_link_header(link).get("next", "")
NextUrl(hdr) == DictGet(parse_link_header(hdr), "next")

---------------------------------------------------------------------------
(* Output channels *)

\* one message written to a stream
Msg(m) == [msg |-> m]

\* a message whose text carries a version and a URL
MsgFor(m, v, u) == [msg |-> m, ver |-> v, url |-> u]

\* a message whose text carries a number
MsgNum(m, n) == [msg |-> m, n |-> n]

---------------------------------------------------------------------------
(* ProgressLine *)

\* last_render_ts is 0 (the dataclass default) or Now, a reading of time.time()
Now == 1

\* ProgressLine(enabled=...)
ProgressLine(enabled) == [enabled |-> enabled, last_render_ts |-> 0, last_line_len |-> 0]

\* Whether update() may return early at `now - last_render_ts < min_interval`:
\* impossible while last_render_ts is still 0, otherwise decided by the clock.
MayThrottle(ui) == ui.enabled /\ ui.last_render_ts # 0

\* ProgressLine.update: the reporter after the call.  throttled says that less
\* than min_interval elapsed since the last render.
PL_update(ui, len, throttled) ==
    IF ~ui.enabled THEN ui
    ELSE IF throttled THEN ui
    ELSE [ui EXCEPT !.last_render_ts = Now, !.last_line_len = len]

\* what ProgressLine.update writes to stderr
PL_update_out(ui, len, throttled) ==
    IF ~ui.enabled \/ throttled THEN <<>>
    ELSE <<[msg |-> "\\r line", len |-> len,
            pad |-> IF ui.last_line_len > len THEN ui.last_line_len - len ELSE 0]>>

\* ProgressLine.done: the reporter after the call
PL_done(ui) == IF ~ui.enabled THEN ui ELSE [ui EXCEPT !.last_line_len = 0]

\* what ProgressLine.done writes to stderr
PL_done_out(ui) == IF ~ui.enabled THEN <<>> ELSE <<Msg("\\n")>>

\* number of decimal digits of a small natural number
Digits(n) == IF n < 10 THEN 1 ELSE IF n < 100 THEN 2 ELSE 3

\* len(bar(i, total)): "[" + width characters + "]"
BarLen == 30

\* len(f"{bar(page, page)}  page {page}  collected {len(versions)} tag(s)")
GhLineLen(p, n) == BarLen + 7 + Digits(p) + 12 + Digits(n) + 7

\* len(color(s, code, True)) - len(s): ESC [ code m ... ESC [ 0 m
ColorLen(codeLen) == 2 + codeLen + 1 + 4

\* len(fmt_rate(...)), taken at its shortest form "0.0/s"
RateLen == 5

\* the statuses main names
HitStatuses == {200, 206}

RedirectStatuses == {301, 302, 307, 308}

\* len(status_txt) with colours on (the live line is built only when ui_enabled,
\* and use_color = ui_enabled)
StatusTxtLen(status) ==
    (IF status = 0 THEN 1 ELSE 3)
    + (IF status \in HitStatuses \/ status \in RedirectStatuses \/ status = 0
       THEN ColorLen(2) ELSE ColorLen(1))

\* len(line) of the live probing line; both branches of the include_404 test
\* give "  status " followed by the dimmed or coloured status
ProbeLineLen(k, n, ver, status) ==
    BarLen + 2 + Digits(k) + 1 + Digits(n) + 2 + RateLen + 2 + 9
    + Len(ver) + ColorLen(2) + 9 + StatusTxtLen(status)

---------------------------------------------------------------------------
(* Inputs of a run *)

\* values of --base-url (None when the option is absent)
BaseUrlArgs == {None, <<" ">>, <<"/">>, <<"h">>, <<" ", "h", "/">>}

\* lines input() may return when --base-url is absent or blank
InputLines == {<<>>, <<"/", "/">>, <<"h", "/">>}

\* main, line 266: (args.base_url or "").strip()
base_url_arg(arg) == Strip(IF arg = None THEN <<>> ELSE arg)

\* main, lines 266-269
base_url_of(arg, line) ==
    LET b0 == base_url_arg(arg)
        b1 == IF b0 = <<>> THEN Strip(line) ELSE b0
    IN  RStripSlash(b1)

\* line 268: input() writes its prompt to sys.stdout
Prompt(arg) ==
    IF base_url_arg(arg) = <<>> THEN <<Msg("Enter base URL (e.g. https://sso.example.com): ")>>
    ELSE <<>>

\* raw tag_name values the release index serves
RawTags ==
    { <<"1">>,
      <<"v", "1">>,
      Str_version \o <<"v", "2">>,
      <<" ", "3", " ">>,
      <<"v">> }

\* release records: objects with a tag_name, and an object without one
Records == {[tag_name |-> t] : t \in RawTags} \cup {[name |-> <<"x">>]}

\* a tag_name that is a JSON number, where a text is expected
JsonNumber == <<"<number>">>

\* a record that is no JSON object but a JSON string
NotAnObject == [json |-> "string"]

\* release records on which the loop body raises AttributeError: rel.get of a
\* str (line 185), and .strip() of an int inside normalize_tag (line 84)
BadRecords == {NotAnObject, [tag_name |-> JsonNumber]}

\* pages that hold such a record between two well-formed ones
BadPages ==
    {<<[tag_name |-> <<"1">>], b, [tag_name |-> Str_version \o <<"v", "2">>]>> :
        b \in BadRecords}

\* how an iteration of the enumerator's loop may raise another exception than
\* HTTPError: in the request or the decoding of its answer, before any record
\* is read, or in the loop over the records of a page
FetchFailures ==
    {[at |-> "request", data |-> <<>>]} \cup {[at |-> "record", data |-> d] : d \in BadPages}

\* rel.get("tag_name")
rel_get_tag_name(rel) == IF "tag_name" \in DOMAIN rel THEN rel.tag_name ELSE None

\* line 185 raises: rel has no method get, or normalize_tag calls .strip() on
\* a value that is neither falsy nor a str
RecordRaises(rel) ==
    IF "json" \in DOMAIN rel THEN TRUE ELSE rel_get_tag_name(rel) = JsonNumber

\* all sequences over S of length at most n
SeqsUpTo(S, n) == UNION {[1..k -> S] : k \in 0..n}

\* Link headers the answer to the request for page p may carry: none (on the
\* first page, when the listing has one page only) or one without "next" (on a
\* later page, which names the first page), one with "next" between other
\* relations, and one whose "next" names another URL than the index
LinkHeaders(p) ==
    LET first == LinkPart(IndexUrl(1), "first")
        next  == LinkPart(IndexUrl(p + 1), "next")
        last  == LinkPart(IndexUrl(MaxPages), "last")
    IN  (IF p = 1 THEN {<<>>} ELSE {<<first>>}) \cup
        (IF p < MaxPages
         THEN {<<first, next, last>>, <<LinkPart(ElsewhereUrl, "next")>>}
         ELSE {})

\* the pages of at most n records a request to u may be answered with: the
\* index serves release records; the other host serves no page at all, its
\* answers are the HTTP error and the exception of the two failing actions
PageBodies(u, n) == IF u = ElsewhereUrl THEN {} ELSE SeqsUpTo(Records, n)

\* status codes of an HTTPError raised by the index request
IndexErrorCodes == {403}

\* code of an outcome that is no HTTP answer (connection refused, timeout)
NoCode == -1

\* what opener.open gives back for one probe of the target (line 243): `answer`
\* is the status of the target's own answer, `kind` and `code` are what the call
\* returns or raises.  The opener is built with HTTPRedirectHandler (line 233):
\* a redirect that names a location is followed and the call returns the
\* destination's answer; one that cannot be followed is raised as an HTTPError.
\* 404 stands for every status main treats in its last branch (lines 329, 339):
\* neither 200/206, nor a redirect, nor 0.
ProbeOutcomes ==
    { [kind |-> "response",  answer |-> 200, code |-> 200],
      [kind |-> "response",  answer |-> 206, code |-> 206],
      [kind |-> "response",  answer |-> 302, code |-> 200],
      [kind |-> "HTTPError", answer |-> 404, code |-> 404],
      [kind |-> "HTTPError", answer |-> 302, code |-> 302],
      [kind |-> "URLError",  answer |-> NoCode, code |-> NoCode] }

---------------------------------------------------------------------------
(* github_fetch_release_tags: the loop body over one page's records *)

\* variant of ProcessRecords: the `tag in seen` test is missing
RECURSIVE ProcessRecords_no_seen(_, _, _)
ProcessRecords_no_seen(data, vs, sn) ==
    IF data = <<>> THEN [versions |-> vs, seen |-> sn, raised |-> FALSE]
    ELSE IF RecordRaises(Head(data)) THEN [versions |-> vs, seen |-> sn, raised |-> TRUE]
    ELSE LET tag == normalize_tag(rel_get_tag_name(Head(data)))
         IN  IF tag = <<>>
             THEN ProcessRecords_no_seen(Tail(data), vs, sn)
             ELSE ProcessRecords_no_seen(Tail(data), Append(vs, tag), sn \cup {tag})

\* lines 184-189: fold of the records of one page into (versions, seen), up to
\* the first record on which the loop body raises
RECURSIVE ProcessRecords(_, _, _)
ProcessRecords(data, vs, sn) ==
    IF data = <<>> THEN [versions |-> vs, seen |-> sn, raised |-> FALSE]
    ELSE IF RecordRaises(Head(data)) THEN [versions |-> vs, seen |-> sn, raised |-> TRUE]
    ELSE LET tag == normalize_tag(rel_get_tag_name(Head(data)))
         IN  IF tag = <<>> \/ tag \in sn
             THEN ProcessRecords(Tail(data), vs, sn)
             ELSE ProcessRecords(Tail(data), Append(vs, tag), sn \cup {tag})

\* variant of probe_url_status: the last except clause is missing its own
\* return value and hands on whatever code the outcome carries
probe_url_status_no_zero(outcome) == outcome.code

\* probe_url_status: the status code, or 0 on network failure
probe_url_status(outcome) ==
    IF outcome.kind = "response" THEN outcome.code
    ELSE IF outcome.kind = "HTTPError" THEN outcome.code
    ELSE 0

\* line 339: status in (200, 206)
IsHit(status) == status \in HitStatuses

---------------------------------------------------------------------------
(* State machine *)

\* exit_code while main has not returned
NoExit == -1

\* entries of the history of network requests and pauses
\* result is "ok", "HTTPError" or "exception" for an index request
IndexRequest(u, auth, result) ==
    [ev |-> "GET index", url |-> u, auth |-> auth, result |-> result]

\* probe_url_status sends User-Agent and Range only (lines 236-239)
ProbeRequest(u, v) == [ev |-> "GET target", url |-> u, ver |-> v, auth |-> FALSE]

Pause(what) == [ev |-> what]

\* whether a Link header carries a part with rel="next"
HasNextRel(hdr) == \E k \in 1..Len(hdr) : hdr[k].rel = "next"

\* variant of ExitCodeFor: "no hit" returns the failure code of line 295
ExitCodeFor_no_hit_1(outcome) ==
    CASE outcome = "no base url"        -> 2
      [] outcome = "enumeration failed" -> 1
      [] outcome = "no releases"        -> 1
      [] outcome = "no hit"             -> 1
      [] outcome = "found"              -> 0

\* the return statements of main, lines 272, 291, 295, 359 and 370
ExitCodeFor(outcome) ==
    CASE outcome = "no base url"        -> 2
      [] outcome = "enumeration failed" -> 1
      [] outcome = "no releases"        -> 1
      [] outcome = "no hit"             -> 3
      [] outcome = "found"              -> 0

\* variant of MainOnEnumError: the exception is swallowed and the loop goes on
MainOnEnumError_swallowed == [pc |-> "fetch", exit_code |-> NoExit]

\* main, lines 290-291: an exception of the enumerator ends the run
MainOnEnumError == [pc |-> "done", exit_code |-> ExitCodeFor("enumeration failed")]

\* variant of NoCandidates: the test of line 293 is missing
NoCandidates_unchecked(vs) == FALSE

\* main, line 293: `if not versions`
NoCandidates(vs) == vs = <<>>

InitRun ==
    /\ pc = "start"
    /\ args = [all |-> FALSE, sleep |-> FALSE, verbose |-> FALSE]
    /\ ui_enabled = FALSE
    /\ base_url = <<>>
    /\ token = FALSE
    /\ url = NoUrl
    /\ page = 0
    /\ versions = <<>>
    /\ seen = {}
    /\ gh_ui = ProgressLine(FALSE)
    /\ probe_ui = ProgressLine(FALSE)
    /\ candidates = <<>>
    /\ total = 0
    /\ i = 0
    /\ checked = 0
    /\ found = <<>>
    /\ exit_code = NoExit
    /\ stdout = <<>>
    /\ stderr = <<>>
    /\ rawLog = <<>>
    /\ link = <<>>
    /\ requests = <<>>
    /\ probeLog = <<>>

Init == InitRun /\ normLog = <<>> /\ uiLog = <<>>

\* main, lines 264-272: no base URL from the option or from input()
MainNoBaseUrl ==
    /\ pc = "start"
    /\ \E arg \in BaseUrlArgs, line \in InputLines :
           /\ base_url_of(arg, line) = <<>>
           /\ stdout' = stdout \o Prompt(arg)
    /\ stderr' = Append(stderr, Msg("No base URL provided."))
    /\ exit_code' = ExitCodeFor("no base url")
    /\ pc' = "done"
    /\ UNCHANGED <<args, ui_enabled, base_url, token, url, page, versions, seen,
                   gh_ui, probe_ui, candidates, total, i, checked, found,
                   rawLog, link, requests, probeLog, normLog, uiLog>>

\* main, lines 264-289, and github_fetch_release_tags up to its loop,
\* lines 151-170
MainStart ==
    /\ pc = "start"
    /\ \E arg \in BaseUrlArgs, line \in InputLines :
           /\ base_url_of(arg, line) # <<>>
           /\ base_url' = base_url_of(arg, line)
           /\ stdout' = stdout \o Prompt(arg)
    /\ \E a \in BOOLEAN, sl \in BOOLEAN, vb \in BOOLEAN :
           args' = [all |-> a, sleep |-> sl, verbose |-> vb]
    /\ \E tty \in BOOLEAN, no_ui \in BOOLEAN :
           /\ ui_enabled' = (tty /\ ~no_ui)
           /\ gh_ui' = ProgressLine(tty /\ ~no_ui)
    /\ \E tk \in BOOLEAN : token' = tk
    /\ versions' = <<>>
    /\ seen' = {}
    /\ url' = IndexUrl(1)
    /\ page' = 1
    /\ link' = <<>>
    /\ stderr' = stderr \o <<Msg("Phase 1/2:"), Msg("Repo:")>>
                    \o (IF token' THEN <<>> ELSE <<Msg("Tip: set GITHUB_TOKEN")>>)
    /\ pc' = "fetch"
    /\ UNCHANGED <<probe_ui, candidates, total, i, checked, found, exit_code,
                   rawLog, requests, probeLog, normLog, uiLog>>

\* Consecutive calls of gh_ui.update are separated by the request and by
\* time.sleep(0.05) (line 212), which is min_interval: phase 1 never throttles.
GhThrottled == FALSE

\* lines 173-178: what every loop iteration writes before the request
FetchPrologue ==
    PL_update_out(gh_ui, GhLineLen(page, Len(versions)), GhThrottled)
        \o (IF args.verbose THEN <<Msg("[debug] GET")>> ELSE <<>>)

\* line 173: the reporter after the update of a loop iteration
GhUiUpdated == PL_update(gh_ui, GhLineLen(page, Len(versions)), GhThrottled)

\* github_fetch_release_tags, lines 172-192 and 211-212: one iteration of the
\* loop whose request is answered with a 2xx page
FetchPageOk ==
    /\ pc = "fetch"
    /\ url # NoUrl
    /\ \E data \in PageBodies(url, MaxLog - Len(rawLog)),
          hdr \in LinkHeaders(page) :
           LET r == ProcessRecords(data, versions, seen) IN
           /\ ~r.raised
           /\ gh_ui' = GhUiUpdated
           /\ stderr' = stderr \o FetchPrologue
           /\ versions' = r.versions
           /\ seen' = r.seen
           /\ rawLog' = rawLog \o data
           /\ link' = hdr
           /\ url' = NextUrl(hdr)
    /\ requests' = requests \o <<IndexRequest(url, token, "ok"), Pause("sleep 0.05")>>
    /\ page' = page + 1
    /\ UNCHANGED <<pc, args, ui_enabled, base_url, token, probe_ui, candidates,
                   total, i, checked, found, exit_code, stdout, probeLog, normLog, uiLog>>

\* lines 172-180 and 194-204, then main lines 290-291: the request is answered
\* with a non-2xx status; the error is re-raised and main returns 1.  The
\* enumerator's locals go out of scope; the model keeps the partly built list
\* in `versions` and the failed URL in `url` to show what was abandoned.
FetchPageHTTPError ==
    /\ pc = "fetch"
    /\ url # NoUrl
    /\ \E code \in IndexErrorCodes, body \in BOOLEAN :
           /\ gh_ui' = PL_done(GhUiUpdated)
           /\ stderr' = stderr \o FetchPrologue \o PL_done_out(GhUiUpdated)
                           \o <<MsgNum("GitHub API error: HTTP", code)>>
                           \o (IF body THEN <<Msg("body[:800]")>> ELSE <<>>)
                           \o <<Msg("If this is a rate limit, set GITHUB_TOKEN and retry.")>>
    /\ requests' = Append(requests, IndexRequest(url, token, "HTTPError"))
    /\ exit_code' = MainOnEnumError.exit_code
    /\ pc' = MainOnEnumError.pc
    /\ seen' = {}
    /\ page' = 0
    /\ rawLog' = <<>>
    /\ link' = <<>>
    /\ UNCHANGED <<args, ui_enabled, base_url, token, url, versions, probe_ui,
                   candidates, total, i, checked, found, stdout, probeLog, normLog, uiLog>>

\* lines 172-189 and 206-209, then main lines 290-291: the request, the
\* decoding of its answer or the loop over its records raises another
\* exception.  In the last case the records before the failing one have been
\* appended already, and `rawLog` keeps the page that failed.
FetchPageException ==
    /\ pc = "fetch"
    /\ url # NoUrl
    /\ \E f \in FetchFailures :
           LET r == ProcessRecords(f.data, versions, seen) IN
           /\ f.at = "record" => r.raised
           /\ versions' = r.versions
           /\ rawLog' = f.data
    /\ gh_ui' = PL_done(GhUiUpdated)
    /\ stderr' = stderr \o FetchPrologue \o PL_done_out(GhUiUpdated)
                    \o <<Msg("Failed to fetch releases:")>>
    /\ requests' = Append(requests, IndexRequest(url, token, "exception"))
    /\ exit_code' = MainOnEnumError.exit_code
    /\ pc' = MainOnEnumError.pc
    /\ seen' = {}
    /\ page' = 0
    /\ link' = <<>>
    /\ UNCHANGED <<args, ui_enabled, base_url, token, url, probe_ui,
                   candidates, total, i, checked, found, stdout, probeLog, normLog, uiLog>>

\* lines 214-217: what the enumerator writes when its loop has ended
EnumEpilogue == PL_done_out(gh_ui) \o <<Msg("Done. Fetched"), Msg("")>>

\* lines 214-218, then main lines 293-295: the loop has ended with no tag
\* collected
EnumReturnEmpty ==
    /\ pc = "fetch"
    /\ url = NoUrl
    /\ NoCandidates(versions)
    /\ gh_ui' = PL_done(gh_ui)
    /\ candidates' = versions
    /\ stderr' = stderr \o EnumEpilogue \o <<Msg("No GitHub releases found.")>>
    /\ exit_code' = ExitCodeFor("no releases")
    /\ pc' = "done"
    /\ seen' = {}
    /\ page' = 0
    /\ rawLog' = <<>>
    /\ link' = <<>>
    /\ UNCHANGED <<args, ui_enabled, base_url, token, url, versions, probe_ui,
                   total, i, checked, found, stdout, requests, probeLog, normLog, uiLog>>

\* lines 214-218, then main lines 293-308: the enumerator returns a non-empty
\* list (its locals go out of scope) and main sets up the probing phase
EnumReturn ==
    /\ pc = "fetch"
    /\ url = NoUrl
    /\ ~NoCandidates(versions)
    /\ gh_ui' = PL_done(gh_ui)
    /\ candidates' = versions
    /\ stderr' = stderr \o EnumEpilogue
                    \o <<Msg("Phase 2/2:"), Msg("Base:"), Msg("Path:"), Msg("")>>
    /\ probe_ui' = ProgressLine(ui_enabled)
    /\ found' = <<>>
    /\ total' = Len(versions)
    /\ checked' = 0
    /\ i' = 0
    /\ pc' = IF Len(versions) = 0 THEN "report" ELSE "probe"
    /\ versions' = <<>>
    /\ seen' = {}
    /\ page' = 0
    /\ rawLog' = <<>>
    /\ link' = <<>>
    /\ UNCHANGED <<args, ui_enabled, base_url, token, url, exit_code, stdout,
                   requests, probeLog, normLog, uiLog>>

\* lines 316-336: what one loop iteration writes after its probe
ProbeReport(k, ver, status, throttled) ==
    IF ui_enabled
    THEN PL_update_out(probe_ui, ProbeLineLen(k, total, ver, status), throttled)
    ELSE IF args.verbose
         THEN <<[msg |-> "checking [i/total] ver -> HTTP status", ver |-> ver, n |-> status]>>
    ELSE <<>>

\* variant of FoundAfter: a hit replaces the list instead of being appended
FoundAfter_last_only(fnd, ver, u, status) ==
    IF IsHit(status) THEN <<[ver |-> ver, url |-> u, status |-> status]>>
    ELSE fnd

\* lines 339-342: the hit list after a probe
FoundAfter(fnd, ver, u, status) ==
    IF IsHit(status) THEN Append(fnd, [ver |-> ver, url |-> u, status |-> status])
    ELSE fnd

\* variant of Breaks: the loop never breaks
Breaks_never(status, all) == FALSE

\* variant of Breaks: the loop breaks on a hit whatever --all says
Breaks_ignoring_all(status, all) == IsHit(status)

\* variant of Breaks: --verbose keeps the loop running
Breaks_unless_verbose(status, all) == IsHit(status) /\ ~all /\ ~args.verbose

\* lines 339-342: whether the loop is left by `break` after this probe
Breaks(status, all) == IsHit(status) /\ ~all

\* variant of Sleeps: the loop never pauses
Sleeps_never(brk, sleep) == FALSE

\* lines 341-345: whether time.sleep(args.sleep) is reached after this probe;
\* `break` comes before it, and `sleep` stands for args.sleep > 0
Sleeps(brk, sleep) == ~brk /\ sleep

\* variant of Candidate: the list is walked from its end
Candidate_reversed(vs, k) == vs[Len(vs) + 1 - k]

\* line 310: the candidate of the k-th iteration of enumerate(versions, start=1)
Candidate(vs, k) == vs[k]

\* main, lines 310-345: one iteration of the probing loop
ProbeStep ==
    /\ pc = "probe"
    /\ i < total
    /\ \E outcome \in ProbeOutcomes,
          throttled \in {FALSE} \cup {t \in {TRUE} : MayThrottle(probe_ui)} :
           LET k      == i + 1
               ver    == Candidate(candidates, k)
               u      == ProbeUrl(base_url, ver)
               status == probe_url_status(outcome)
               brk    == Breaks(status, args.all)
               slept  == Sleeps(brk, args.sleep)
           IN  /\ i' = k
               /\ checked' = checked + 1
               /\ requests' = Append(requests, ProbeRequest(u, ver))
                                 \o (IF slept THEN <<Pause("sleep args.sleep")>> ELSE <<>>)
               /\ probeLog' = Append(probeLog, [ver |-> ver, url |-> u, status |-> status,
                                                 outcome |-> outcome])
               /\ probe_ui' = IF ui_enabled
                              THEN PL_update(probe_ui, ProbeLineLen(k, total, ver, status),
                                             throttled)
                              ELSE probe_ui
               /\ stderr' = stderr \o ProbeReport(k, ver, status, throttled)
               /\ found' = FoundAfter(found, ver, u, status)
               /\ pc' = IF brk \/ k = total THEN "report" ELSE "probe"
    /\ UNCHANGED <<args, ui_enabled, base_url, token, url, page, versions, seen,
                   gh_ui, candidates, total, exit_code, stdout, rawLog, link, normLog, uiLog>>

\* lines 347-354: what main writes to stderr once the loop has ended
ReportPrologue ==
    PL_done_out(probe_ui) \o <<Msg(""), Msg("Final result:"), Msg("Checked:")>>

\* lines 361-364: the list of hits of --all
RECURSIVE HitLines(_)
HitLines(fnd) ==
    IF fnd = <<>> THEN <<>>
    ELSE <<MsgFor("  - ver (HTTP status) - url", Head(fnd).ver, Head(fnd).url)>>
             \o HitLines(Tail(fnd))

\* line 367: the hit the final line reports, found[0]
ReportedHit(fnd) == fnd[1]

\* main, lines 347-359: the loop has ended with no hit
ReportNoHit ==
    /\ pc = "report"
    /\ found = <<>>
    /\ probe_ui' = PL_done(probe_ui)
    /\ stdout' = Append(stdout, Msg(""))
    /\ stderr' = stderr \o ReportPrologue
                    \o <<Msg("No AdminInterface JS found for any GitHub release tag.")>>
    /\ exit_code' = ExitCodeFor("no hit")
    /\ pc' = "done"
    /\ UNCHANGED <<args, ui_enabled, base_url, token, url, page, versions, seen,
                   gh_ui, candidates, total, i, checked, found, rawLog, link,
                   requests, probeLog, normLog, uiLog>>

\* main, lines 347-355 and 361-370: the loop has ended with at least one hit
ReportFound ==
    /\ pc = "report"
    /\ found # <<>>
    /\ probe_ui' = PL_done(probe_ui)
    /\ stdout' = Append(stdout, Msg(""))
    /\ stderr' = stderr \o ReportPrologue
                    \o (IF args.all
                        THEN <<MsgNum("Found n hit(s):", Len(found))>>
                                 \o HitLines(found)
                        ELSE <<>>)
                    \o <<MsgFor("Found: ver (HTTP status) - url",
                                ReportedHit(found).ver, ReportedHit(found).url)>>
    /\ exit_code' = ExitCodeFor("found")
    /\ pc' = "done"
    /\ UNCHANGED <<args, ui_enabled, base_url, token, url, page, versions, seen,
                   gh_ui, candidates, total, i, checked, found, rawLog, link,
                   requests, probeLog, normLog, uiLog>>

Next ==
    \/ MainNoBaseUrl
    \/ MainStart
    \/ FetchPageOk
    \/ FetchPageHTTPError
    \/ FetchPageException
    \/ EnumReturnEmpty
    \/ EnumReturn
    \/ ProbeStep
    \/ ReportNoHit
    \/ ReportFound

Spec == Init /\ [][Next]_vars

---------------------------------------------------------------------------
(* Views of the histories used by the properties *)

IndexRequests == SelectSeq(requests, LAMBDA r : r.ev = "GET index")

TargetRequests == SelectSeq(requests, LAMBDA r : r.ev = "GET target")

\* the candidates probed so far, in the order of the requests
ProbedVers == LET tr == TargetRequests IN [k \in 1..Len(tr) |-> tr[k].ver]

\* HTTP 200 or 206
Success(status) == status = 200 \/ status = 206

\* the probes answered with success, as main records a hit
SuccessfulProbes ==
    LET ok == SelectSeq(probeLog, LAMBDA e : Success(e.status))
    IN  [k \in 1..Len(ok) |-> [ver |-> ok[k].ver, url |-> ok[k].url, status |-> ok[k].status]]

\* the probing loop has been entered
Probing == pc \in {"probe", "report"} \/ (pc = "done" /\ exit_code \in {0, 3})

\* the probing loop has ended
ProbingEnded == pc = "report" \/ (pc = "done" /\ exit_code \in {0, 3})

Said(m) == \E k \in 1..Len(stderr) : stderr[k].msg = m

LastSaid == IF stderr = <<>> THEN "" ELSE stderr[Len(stderr)].msg

---------------------------------------------------------------------------
(* C1 *)

\* C1: in default (non-exhaustive) mode the search stops right after the first
\* probe classified as success: a successful probe is the last probe issued,
\* the hit list is exactly that one candidate, the loop is no longer running,
\* and therefore no candidate after it is ever requested from the target.
C1_EarlyExit ==
    ~args.all =>
        /\ Len(found) <= 1
        /\ Len(TargetRequests) = Len(probeLog)
        /\ \A k \in 1..Len(probeLog) :
               Success(probeLog[k].status) =>
                   /\ k = Len(probeLog)
                   /\ pc # "probe"
                   /\ found = <<[ver |-> candidates[k], url |-> probeLog[k].url,
                                 status |-> probeLog[k].status]>>
                   /\ \A j \in (k + 1)..Len(candidates) :
                          \A q \in 1..Len(TargetRequests) :
                              TargetRequests[q].ver # candidates[j]

\* candidates [a, b, c], a absent, b success: the run ended with hit list [b]
\* after two probes
C1_Witness ==
    /\ ~args.all
    /\ pc = "done"
    /\ Len(candidates) = 3
    /\ Len(probeLog) = 2
    /\ probeLog[1].status = 404
    /\ probeLog[2].status = 200
    /\ Len(found) = 1
    /\ found[1].ver = candidates[2]

---------------------------------------------------------------------------
(* C2 *)

\* C2: in exhaustive mode (--all), once the probing loop has ended every
\* candidate has been probed exactly once, and the hit list is exactly the
\* candidates whose probe was classified as success.
C2_Exhaustive ==
    (args.all /\ ProbingEnded) =>
        /\ Len(ProbedVers) = Len(candidates)
        /\ \A j \in 1..Len(candidates) :
               Cardinality({q \in 1..Len(ProbedVers) : ProbedVers[q] = candidates[j]}) = 1
        /\ Len(probeLog) = Len(candidates)
        /\ found = SuccessfulProbes
        /\ \A j \in 1..Len(candidates) :
               (\E h \in 1..Len(found) : found[h].ver = candidates[j])
                   <=> Success(probeLog[j].status)

\* candidates [a, b, c] answered absent, success, success give hits [b, c]
C2_Witness ==
    /\ args.all
    /\ pc = "done"
    /\ Len(candidates) = 3
    /\ Len(probeLog) = 3
    /\ probeLog[1].status = 404
    /\ Success(probeLog[2].status)
    /\ Success(probeLog[3].status)
    /\ Len(found) = 2
    /\ found[1].ver = candidates[2]
    /\ found[2].ver = candidates[3]

---------------------------------------------------------------------------
(* C3 *)

\* position in the candidate list of the first probe answered with success
FirstSuccess == CHOOSE k \in 1..Len(probeLog) :
                    /\ Success(probeLog[k].status)
                    /\ \A j \in 1..(k - 1) : ~Success(probeLog[j].status)

\* the final "Found:" line of stderr
FoundLine == CHOOSE m \in {stderr[k] : k \in 1..Len(stderr)} :
                 m.msg = "Found: ver (HTTP status) - url"

\* C3: in both modes the probed candidates are a prefix of the enumeration
\* output in enumeration order, the hit list is the subsequence of successful
\* probes in that same order, and the hit reported at the end is the first
\* success in enumeration order.
C3_OrderPreserved ==
    /\ Len(ProbedVers) <= Len(candidates)
    /\ ProbedVers = SubSeq(candidates, 1, Len(ProbedVers))
    /\ \A k \in 1..Len(probeLog) : probeLog[k].ver = candidates[k]
    /\ found = SuccessfulProbes
    /\ (pc = "done" /\ exit_code = 0) =>
           /\ FoundLine.ver = candidates[FirstSuccess]
           /\ FoundLine.ver = found[1].ver

\* an exhaustive run in which two candidates answered with success and the
\* first of them in enumeration order is not the first candidate
C3_Witness ==
    /\ pc = "done"
    /\ exit_code = 0
    /\ Len(found) >= 2
    /\ Len(candidates) = 3
    /\ found[1].ver = candidates[2]

---------------------------------------------------------------------------
(* C4 *)

\* the raw tag of every record received so far, None for a record without one
RawTagsSeen == [k \in 1..Len(rawLog) |-> rel_get_tag_name(rawLog[k])]

NormalizedSeen ==
    [k \in 1..Len(rawLog) |-> normalize_tag(rel_get_tag_name(rawLog[k]))]

\* position of the first record whose tag normalizes to v
FirstAt(v) == LET ns == NormalizedSeen
              IN  CHOOSE k \in 1..Len(ns) :
                      /\ ns[k] = v
                      /\ \A j \in 1..(k - 1) : ns[j] # v

\* the list holds exactly the values of vals, each once, in the order of their
\* first occurrence upstream
ListsOnceInFirstSeenOrder(vals) ==
    /\ Len(versions) = Cardinality(vals)
    /\ \A v \in vals : Cardinality({j \in 1..Len(versions) : versions[j] = v}) = 1
    /\ \A a, b \in 1..Len(versions) :
           a < b => FirstAt(versions[a]) < FirstAt(versions[b])

\* C4 as stated: after every page the output list holds every distinct
\* normalized value of the raw tags received, each exactly once, in the order
\* of first occurrence.
C4_Original ==
    pc = "fetch" =>
        ListsOnceInFirstSeenOrder(
            {NormalizedSeen[k] : k \in {j \in 1..Len(rawLog) : RawTagsSeen[j] # None}})

\* C4, amended: after every page the output list holds every distinct
\* NON-EMPTY normalized value of the raw tags received (a tag that normalizes
\* to the empty string is not listed), each exactly once, in the order of first
\* occurrence upstream.
C4_DedupNonEmpty ==
    pc = "fetch" =>
        ListsOnceInFirstSeenOrder({NormalizedSeen[k] : k \in 1..Len(rawLog)} \ {<<>>})

\* two pages have been processed, two different raw tags of them normalize to
\* the same non-empty value, and another tag normalizes to the empty string
C4_Witness ==
    /\ pc = "fetch"
    /\ page = 3
    /\ \E a, b \in 1..Len(rawLog) :
           /\ a < b
           /\ RawTagsSeen[a] # RawTagsSeen[b]
           /\ NormalizedSeen[a] = NormalizedSeen[b]
           /\ NormalizedSeen[a] # <<>>
    /\ \E c \in 1..Len(rawLog) : RawTagsSeen[c] # None /\ NormalizedSeen[c] = <<>>
    /\ Len(versions) = 1

---------------------------------------------------------------------------
(* C5 *)

\* C5: a probe whose transport call raises is given status 0, is not a hit,
\* does not end the run with an error, and leaves the loop where a 404 leaves
\* it: running while candidates remain, ended after the last one.
C5_NetworkFailure ==
    \A k \in 1..Len(probeLog) :
        probeLog[k].outcome.kind = "URLError" =>
            /\ probeLog[k].status = 0
            /\ \A h \in 1..Len(found) : found[h].ver # probeLog[k].ver
            /\ exit_code \in {NoExit, 0, 3}
            /\ k < Len(candidates) => (Len(probeLog) > k \/ pc = "probe")
            /\ k = Len(candidates) => pc \in {"report", "done"}

\* a probe failed at transport level and the following candidate was probed
C5_Witness ==
    /\ pc = "done"
    /\ Len(probeLog) >= 2
    /\ probeLog[1].outcome.kind = "URLError"
    /\ probeLog[2].status = 404
    /\ exit_code = 3

---------------------------------------------------------------------------
(* C6 *)

\* the enumerator returned normally with an empty list
EmptyEnumeration == pc = "done" /\ Said("Done. Fetched") /\ candidates = <<>>

\* every candidate was probed and none was a hit
ProbedAllNoHit ==
    pc = "done" /\ probeLog # <<>> /\ Len(probeLog) = Len(candidates) /\ found = <<>>

NoHitMsg == "No AdminInterface JS found for any GitHub release tag."

\* C6: a run whose enumeration returns an empty list ends without any probe,
\* and its exit code and final message differ from those of a run that probed
\* every candidate without a hit.
C6_ZeroCandidates ==
    /\ EmptyEnumeration =>
           /\ probeLog = <<>>
           /\ TargetRequests = <<>>
           /\ checked = 0
           /\ exit_code # 3
           /\ LastSaid # NoHitMsg
           /\ ~Said(NoHitMsg)
    /\ ProbedAllNoHit =>
           /\ exit_code = 3
           /\ LastSaid = NoHitMsg

\* two pages were fetched, none yielded a candidate, and the run has ended
C6_Witness ==
    /\ EmptyEnumeration
    /\ Len(IndexRequests) = 2
    /\ exit_code = 1
    /\ LastSaid = "No GitHub releases found."

---------------------------------------------------------------------------
(* C7 *)

FailedIndexRequest(r) == r.ev = "GET index" /\ r.result # "ok"

\* C7: an index request that fails (transport error or non-2xx answer) is the
\* last request of the run: no further page is fetched, no candidate reaches
\* main, no probe is issued, and the run has ended with exit code 1.
C7_EnumerationAborts ==
    \A k \in 1..Len(requests) :
        FailedIndexRequest(requests[k]) =>
            /\ k = Len(requests)
            /\ pc = "done"
            /\ exit_code = 1
            /\ candidates = <<>>
            /\ probeLog = <<>>
            /\ TargetRequests = <<>>
            /\ checked = 0

\* the second page failed after the first page had yielded candidates
C7_Witness ==
    /\ pc = "done"
    /\ Len(IndexRequests) = 2
    /\ IndexRequests[1].result = "ok"
    /\ IndexRequests[2].result = "HTTPError"
    /\ versions # <<>>
    /\ candidates = <<>>

---------------------------------------------------------------------------
(* C8 *)

FetchesAgain == ENABLED (FetchPageOk \/ FetchPageHTTPError \/ FetchPageException)

Returns == ENABLED (EnumReturn \/ EnumReturnEmpty)

\* C8: after a page has been processed, enumeration goes on to another request
\* if and only if the page's Link header carried a "next" relation, whatever
\* the number of its records; otherwise the enumerator returns.
C8_PaginationEnds ==
    (pc = "fetch" /\ page > 1) =>
        /\ FetchesAgain <=> HasNextRel(link)
        /\ Returns <=> ~HasNextRel(link)
        /\ HasNextRel(link) =>
              \E k \in 1..Len(link) : link[k].rel = "next" /\ url = link[k].url

\* a page without records but with a "next" relation was followed: two pages
\* were fetched, neither held a record, and the second carried no "next"
C8_Witness ==
    /\ pc = "fetch"
    /\ page = 3
    /\ rawLog = <<>>
    /\ Len(IndexRequests) = 2
    /\ ~HasNextRel(link)
    /\ link # <<>>
    /\ url = NoUrl

---------------------------------------------------------------------------
(* C9 *)

EnumerationFailed == \E k \in 1..Len(requests) : FailedIndexRequest(requests[k])

\* C9 as stated: 2 without a base URL (before any request), 1 when
\* enumeration failed, 0 with at least one hit, 3 when enumeration succeeded
\* and no hit was found.
C9_Original ==
    pc = "done" =>
        /\ exit_code = (IF base_url = <<>> THEN 2
                        ELSE IF EnumerationFailed THEN 1
                        ELSE IF found # <<>> THEN 0
                        ELSE 3)
        /\ exit_code = 2 => requests = <<>>

\* C9, amended: 2 without a base URL (before any request), 1 when enumeration
\* failed OR RETURNED NO CANDIDATE, 0 with at least one hit (in exhaustive
\* mode after every candidate was probed), 3 when at least one candidate was
\* probed and no hit was found.
C9_ExitCodes ==
    pc = "done" =>
        /\ exit_code = (IF base_url = <<>> THEN 2
                        ELSE IF EnumerationFailed THEN 1
                        ELSE IF candidates = <<>> THEN 1
                        ELSE IF found # <<>> THEN 0
                        ELSE 3)
        /\ exit_code = 2 => requests = <<>>
        /\ exit_code = 3 => probeLog # <<>>
        /\ (exit_code = 0 /\ args.all) => Len(probeLog) = Len(candidates)

\* enumeration succeeded without a candidate and the run returned 1
C9_Witness ==
    /\ pc = "done"
    /\ base_url # <<>>
    /\ ~EnumerationFailed
    /\ candidates = <<>>
    /\ exit_code = 1

---------------------------------------------------------------------------
(* C10 *)

\* C10 as stated: when a default-mode run ends with a hit, STDOUT holds the
\* final result and nothing else: the first found version and its link.
C10_Original ==
    (pc = "done" /\ exit_code = 0 /\ ~args.all) =>
        /\ stdout # <<>>
        /\ \A k \in 1..Len(stdout) :
               /\ "ver" \in DOMAIN stdout[k]
               /\ stdout[k].ver = found[1].ver
               /\ stdout[k].url = found[1].url

---------------------------------------------------------------------------
(* normalize_tag on its own: a second specification whose initial states draw
   the raw tag from a bounded set and whose actions apply normalize_tag to it,
   and then to its own result *)

TagAlphabet == {"v", "1", ".", " "}

RECURSIVE TagBodies(_)
TagBodies(n) ==
    IF n = 0 THEN {<<>>}
    ELSE LET shorter == TagBodies(n - 1)
         IN  shorter \cup {Append(b, c) : b \in shorter, c \in TagAlphabet}

TagPrefixes == {<<>>, <<"v">>, Str_version, Str_version \o <<"v">>}

NormInputs == {p \o b : p \in TagPrefixes, b \in TagBodies(MaxTagLen)}

InitNorm == InitRun /\ normLog \in {<<t>> : t \in NormInputs} /\ uiLog = <<>>

NormalizeOnce ==
    /\ Len(normLog) = 1
    /\ normLog' = Append(normLog, normalize_tag(normLog[1]))
    /\ UNCHANGED <<pc, args, ui_enabled, base_url, token, url, page, versions,
                   seen, link, gh_ui, probe_ui, candidates, total, i, checked,
                   found, exit_code, stdout, stderr, rawLog, requests, probeLog,
                   uiLog>>

NormalizeAgain ==
    /\ Len(normLog) = 2
    /\ normLog' = Append(normLog, normalize_tag(normLog[2]))
    /\ UNCHANGED <<pc, args, ui_enabled, base_url, token, url, page, versions,
                   seen, link, gh_ui, probe_ui, candidates, total, i, checked,
                   found, exit_code, stdout, stderr, rawLog, requests, probeLog,
                   uiLog>>

NextNorm ==
    \/ NormalizeOnce
    \/ NormalizeAgain

SpecNorm == InitNorm /\ [][NextNorm]_vars

HasPrefix(p, s) == Len(s) >= Len(p) /\ SubSeq(s, 1, Len(p)) = p

AfterPrefix(p, s) == SubSeq(s, Len(p) + 1, Len(s))

\* a tag with nothing for normalize_tag to remove
Unprefixed(t) ==
    /\ Strip(t) = t
    /\ ~HasPrefix(Str_version, t)
    /\ ~HasPrefix(<<"v">>, t)

---------------------------------------------------------------------------
(* C11 *)

\* C11 as stated: normalize(normalize(t)) = normalize(t) for every raw tag t,
\* and for every X both "version/vX" and "vX" normalize to X.
C11_Original ==
    /\ Len(normLog) = 3 => normLog[3] = normLog[2]
    /\ Len(normLog) >= 2 =>
          /\ HasPrefix(Str_version \o <<"v">>, normLog[1]) =>
                normLog[2] = AfterPrefix(Str_version \o <<"v">>, normLog[1])
          /\ HasPrefix(<<"v">>, normLog[1]) =>
                normLog[2] = AfterPrefix(<<"v">>, normLog[1])

\* C11: normalize_tag returns unchanged every tag that has no surrounding
\* whitespace and begins with neither "version/" nor "v" (so a second call
\* changes nothing when the first call's result is such a tag); and for every X
\* that does not end in whitespace, "version/vX" normalizes to X, and so does
\* "vX" unless X begins with "ersion/".
C11_Normalization ==
    /\ Len(normLog) >= 2 /\ Unprefixed(normLog[1]) => normLog[2] = normLog[1]
    /\ Len(normLog) = 3 /\ Unprefixed(normLog[2]) => normLog[3] = normLog[2]
    /\ Len(normLog) >= 2 =>
          LET t == normLog[1]
              X1 == AfterPrefix(Str_version \o <<"v">>, t)
              X2 == AfterPrefix(<<"v">>, t)
          IN  /\ HasPrefix(Str_version \o <<"v">>, t) /\ RStrip(X1) = X1 =>
                    normLog[2] = X1
              /\ /\ HasPrefix(<<"v">>, t)
                  /\ RStrip(X2) = X2
                  /\ ~HasPrefix(Tail(Str_version), X2)
                  => normLog[2] = X2

\* "version/v1.1" was normalized to "1.1", and "1.1" to itself
C11_Witness ==
    normLog = << Str_version \o <<"v", "1", ".", "1">>,
                 <<"1", ".", "1">>, <<"1", ".", "1">> >>

---------------------------------------------------------------------------
(* C12 *)

\* a request that carries the Authorization header
CarriesCredential(r) == r.ev \in {"GET index", "GET target"} /\ r.auth

\* a request addressed to {GITHUB_API}/repos/{repo}/releases
ToReleaseIndex(r) ==
    /\ r.ev = "GET index"
    /\ r.url.host = GITHUB_API
    /\ r.url.path = "/repos/" \o Repo \o "/releases"

\* C12 as stated: every request that carries the Authorization header is
\* addressed to the release index, the requests to a "next" URL of a Link
\* header included, and no probe of the target carries it.
C12_Original ==
    \A k \in 1..Len(requests) :
        CarriesCredential(requests[k]) => ToReleaseIndex(requests[k])

---------------------------------------------------------------------------
(* C13 *)

\* the candidate of the k-th probe is in the hit list
MadeHit(k) == \E j \in 1..Len(found) : found[j].ver = probeLog[k].ver

---------------------------------------------------------------------------
(* C14 *)

\* the values of the list
Listed == {versions[j] : j \in 1..Len(versions)}

\* C14 as stated: a record whose tag is not a string, or that is no object, is
\* skipped: the run does not fail because of it, and the well-formed records
\* that follow it on the page are still enumerated.
C14_Original ==
    \A k \in 1..Len(rawLog) :
        rawLog[k] \in BadRecords =>
            /\ exit_code # 1
            /\ \A j \in (k + 1)..Len(rawLog) :
                   rawLog[j] \in Records /\ NormalizedSeen[j] # <<>>
                       => NormalizedSeen[j] \in Listed

---------------------------------------------------------------------------
(* C15 *)

IsPrefix(a, b) == Len(a) <= Len(b) /\ SubSeq(b, 1, Len(a)) = a

\* the counters of the search state, during and at the end of the probing phase
SearchCounts ==
    Probing =>
        /\ checked = Len(TargetRequests)
        /\ 0 <= Len(found) /\ Len(found) <= checked /\ checked <= total
        /\ (ProbingEnded /\ args.all) => checked = total
        /\ (ProbingEnded /\ ~args.all) =>
               \/ Len(found) = 1 /\ checked = FirstSuccess
               \/ Len(found) = 0 /\ checked = total

\* C15: at every point of the probing phase checked equals the number of probes
\* issued, 0 <= |hits| <= checked <= total, and every step leaves the hit list
\* a prefix of what it becomes (it only grows by appending); at the end of an
\* exhaustive run checked = total, and at the end of a non-exhaustive run
\* either |hits| = 1 and checked is the position of the first success, or
\* |hits| = 0 and checked = total.
C15_SearchState == [](SearchCounts) /\ [][IsPrefix(found, found')]_vars

\* a non-exhaustive run over three candidates has ended at the second one, and
\* an exhaustive one has ended with two hits
C15_Witness ==
    /\ pc = "done"
    /\ total = 3
    /\ \/ ~args.all /\ checked = 2 /\ Len(found) = 1
       \/ args.all /\ checked = 3 /\ Len(found) = 2

---------------------------------------------------------------------------
(* C16 *)

(* A relation between two runs is checked on single runs: every observation of
   the program logic is a function of the run's inputs (the pages and Link
   headers of the index, the target's answers, --all, the base URL) that names
   no presentation setting.  Two runs with the same inputs then agree on these
   observations whatever their reporter, --verbose and rate limit did, and TLC
   visits every combination of the presentation settings. *)

\* the target's answers so far, turned into statuses
AnswerStatus(k) ==
    LET o == probeLog[k].outcome
    IN  IF o.kind = "URLError" THEN 0 ELSE o.code

\* the hits these answers give, in candidate order
RECURSIVE HitsUpTo(_)
HitsUpTo(k) ==
    IF k = 0 THEN <<>>
    ELSE IF AnswerStatus(k) \in {200, 206}
         THEN Append(HitsUpTo(k - 1),
                     [ver |-> candidates[k], url |-> ProbeUrl(base_url, candidates[k]),
                      status |-> AnswerStatus(k)])
         ELSE HitsUpTo(k - 1)

\* the "next" URL of a Link header, "" without one
NextOf(hdr) ==
    IF \E k \in 1..Len(hdr) : hdr[k].rel = "next"
    THEN LET k == CHOOSE j \in 1..Len(hdr) : hdr[j].rel = "next" IN hdr[k].url
    ELSE NoUrl

\* C16: the page fetches, the probes, the hit list, the checked count and the
\* exit code are determined by the index's pages and the target's answers (and
\* --all and the base URL) alone: no run, whatever its reporter, --verbose
\* setting or suppressed updates, deviates from the values computed from them.
C16_LogicFromInputs ==
    /\ pc = "fetch" =>
          /\ Len(IndexRequests) = page - 1
          /\ \A k \in 1..Len(IndexRequests) : IndexRequests[k].result = "ok"
          /\ url = IF page = 1 THEN IndexUrl(1) ELSE NextOf(link)
          /\ Len(versions) = Cardinality({NormalizedSeen[k] : k \in 1..Len(rawLog)} \ {<<>>})
          /\ TargetRequests = <<>>
    /\ Probing =>
          LET n  == Len(probeLog)
              tr == TargetRequests
          IN
          /\ checked = n
          /\ Len(tr) = n
          /\ \A k \in 1..n : tr[k].url = ProbeUrl(base_url, candidates[k])
          /\ found = HitsUpTo(n)
          /\ ProbingEnded <=>
                 \/ n = total
                 \/ n > 0 /\ ~args.all /\ AnswerStatus(n) \in {200, 206}
          /\ pc = "done" => exit_code = IF HitsUpTo(n) = <<>> THEN 3 ELSE 0

\* the lines a reporter has rendered
Rendered == {k \in 1..Len(stderr) : stderr[k].msg = "\\r line"}

\* a run with the reporter enabled, in which the rate limit suppressed an
\* update, has probed three candidates and ended with a hit
C16_Witness ==
    /\ pc = "done"
    /\ ui_enabled
    /\ checked = 3
    /\ Cardinality(Rendered) < Len(IndexRequests) + checked
    /\ found # <<>>

---------------------------------------------------------------------------
(* C17 *)

IsProbe(k) == requests[k].ev = "GET target"

PauseFollows(k) == k < Len(requests) /\ requests[k + 1].ev = "sleep args.sleep"

\* C17 as stated: with a positive inter-probe delay a pause follows each probe,
\* in both modes and for every probe outcome (seen once the run has ended, when
\* nothing more can follow).
C17_Original ==
    (args.sleep /\ pc = "done") =>
        \A k \in 1..Len(requests) : IsProbe(k) => PauseFollows(k)

\* C17: with a positive inter-probe delay a pause follows each probe, in both
\* modes and for every probe outcome, except after the successful probe that
\* ends a non-exhaustive run (the loop is left before the pause); no two
\* consecutive probes are issued without a pause between them.
C17_PauseBetweenProbes ==
    args.sleep =>
        \A k \in 1..Len(requests) :
            IsProbe(k) =>
                /\ \/ PauseFollows(k)
                   \/ /\ k = Len(requests)
                      /\ ~args.all
                      /\ ProbingEnded
                      /\ Success(probeLog[Len(probeLog)].status)
                /\ k < Len(requests) => ~IsProbe(k + 1)

\* a non-exhaustive run with a positive delay: the first probe found nothing and
\* was followed by a pause, the second was a success and ended the run
C17_Witness ==
    /\ args.sleep
    /\ ~args.all
    /\ pc = "done"
    /\ checked = 2
    /\ Len(found) = 1
    /\ Len(requests) >= 3
    /\ IsProbe(Len(requests))
    /\ IsProbe(Len(requests) - 2)
    /\ PauseFollows(Len(requests) - 2)

---------------------------------------------------------------------------
(* ProgressLine on its own: a third specification that constructs a reporter
   in `probe_ui`, enabled or not, and calls update and done on it in any order;
   what it writes goes to `stderr` *)

\* len(line) of the lines handed to update
LineLens == {1, 2}

\* ProgressLine(enabled=e)
UiNew ==
    /\ uiLog = <<>>
    /\ \E e \in BOOLEAN :
           /\ probe_ui' = ProgressLine(e)
           /\ uiLog' = <<[call |-> "new"]>>
    /\ UNCHANGED <<pc, args, ui_enabled, base_url, token, url, page, versions,
                   seen, link, gh_ui, candidates, total, i, checked, found,
                   exit_code, stdout, stderr, rawLog, requests, probeLog, normLog>>

\* ProgressLine.update(line), lines 108-120
UiUpdate ==
    /\ uiLog # <<>>
    /\ Len(uiLog) <= MaxCalls
    /\ \E len \in LineLens,
          throttled \in {FALSE} \cup {t \in {TRUE} : MayThrottle(probe_ui)} :
           /\ probe_ui' = PL_update(probe_ui, len, throttled)
           /\ stderr' = stderr \o PL_update_out(probe_ui, len, throttled)
           /\ uiLog' = Append(uiLog, [call |-> "update", len |-> len,
                                       throttled |-> throttled, before |-> probe_ui,
                                       wrote |-> PL_update_out(probe_ui, len, throttled)])
    /\ UNCHANGED <<pc, args, ui_enabled, base_url, token, url, page, versions,
                   seen, link, gh_ui, candidates, total, i, checked, found,
                   exit_code, stdout, rawLog, requests, probeLog, normLog>>

\* ProgressLine.done(), lines 122-126
UiDone ==
    /\ uiLog # <<>>
    /\ Len(uiLog) <= MaxCalls
    /\ probe_ui' = PL_done(probe_ui)
    /\ stderr' = stderr \o PL_done_out(probe_ui)
    /\ uiLog' = Append(uiLog, [call |-> "done", before |-> probe_ui,
                                wrote |-> PL_done_out(probe_ui)])
    /\ UNCHANGED <<pc, args, ui_enabled, base_url, token, url, page, versions,
                   seen, link, gh_ui, candidates, total, i, checked, found,
                   exit_code, stdout, rawLog, requests, probeLog, normLog>>

NextUi ==
    \/ UiNew
    \/ UiUpdate
    \/ UiDone

SpecUi == Init /\ [][NextUi]_vars

---------------------------------------------------------------------------
(* C18 *)

LastCall == uiLog[Len(uiLog)]

\* C18 as stated: done() on an enabled reporter puts both last_line_len and
\* last_render_ts back to their initial values, and an update issued right
\* after done() is rendered, with no padding, as the first one is; on a
\* disabled reporter update() and done() write nothing and change nothing.
C18_Original ==
    Len(uiLog) >= 2 =>
        /\ (LastCall.call = "done" /\ probe_ui.enabled) => probe_ui = ProgressLine(TRUE)
        /\ /\ LastCall.call = "update"
           /\ probe_ui.enabled
           /\ uiLog[Len(uiLog) - 1].call = "done"
           => LastCall.wrote = <<[msg |-> "\\r line", len |-> LastCall.len, pad |-> 0]>>
        /\ ~probe_ui.enabled =>
               /\ LastCall.wrote = <<>>
               /\ probe_ui = LastCall.before
               /\ stderr = <<>>

====
